---- MODULE Spec2Model ----
(***************************************************************************)
(* Green's-function containers of DCore's triqs_compat layer:              *)
(*   dcore/backend/triqs_compat/gf/gf.py  (GfIndices, Gf, GfImFreq,        *)
(*                                          LinearExpression)              *)
(*   dcore/triqs_compat/gf/meshes.py      (MeshImFreq)                     *)
(*                                                                         *)
(* Numbers.  Tensor entries are complex numbers.  They are carried as      *)
(* exact Gaussian rationals (re + i*im)/d in lowest terms.  pi is not      *)
(* rational, so the inverse temperature is drawn from the multiples        *)
(* beta = b*pi of pi and a container stores the integer b; pi/beta is      *)
(* then the rational 1/b and every value the code computes is exact.       *)
(*                                                                         *)
(* Storage.  numpy arrays are mutable objects that several containers can  *)
(* reference, so tensors live in a heap (arrays) and a container holds     *)
(* the address of its data.  Meshes and index sets are never written by    *)
(* any operation after construction and are carried by value.  The field   *)
(* target_shape (a view data[1:], written by the constructor and by <<,    *)
(* read by nothing) is not carried.                                        *)
(***************************************************************************)
EXTENDS Integers, Sequences, FiniteSets, TLC

VARIABLES gfs, arrays, ret, it, nops

vars == <<gfs, arrays, ret, it, nops>>

(***************************************************************************)
(* Bounds of the model                                                     *)
(***************************************************************************)
MaxGf == 3          \* containers alive at a time
MaxNPoints == 2     \* n_points ranges over 1..MaxNPoints
MaxDim == 2         \* target-space dimensions range over 1..MaxDim
MaxNum == 1         \* |numerator| of the entries kept in a tensor
MaxRuns == 2        \* completed iterations remembered by a mesh iterator
MaxOps == 2         \* calls made on the constructed containers

(***************************************************************************)
(* Complex numbers (Gaussian rationals in lowest terms)                    *)
(***************************************************************************)
Abs(x) == IF x < 0 THEN -x ELSE x

RECURSIVE GCD(_, _)
GCD(a, b) == IF b = 0 THEN a ELSE GCD(b, a % b)

\* (re + i*im)/d with d # 0, in lowest terms and with a positive denominator
Q(re, im, d) ==
    LET s == IF d < 0 THEN -1 ELSE 1
        g == GCD(GCD(Abs(re), Abs(im)), Abs(d))
    IN  [re |-> (s * re) \div g, im |-> (s * im) \div g, d |-> Abs(d) \div g]

Zero == Q(0, 0, 1)
One == Q(1, 0, 1)
ImagUnit == Q(0, 1, 1)                       \* Python's 1J

QInt(n) == Q(n, 0, 1)
QAdd(x, y) == Q(x.re * y.d + y.re * x.d, x.im * y.d + y.im * x.d, x.d * y.d)
QMul(x, y) == Q(x.re * y.re - x.im * y.im, x.re * y.im + x.im * y.re, x.d * y.d)
QNeg(x) == Q(-x.re, -x.im, x.d)
\* x / y for y # 0
QDiv(x, y) ==
    LET n2 == y.re * y.re + y.im * y.im
    IN  Q((x.re * y.re + x.im * y.im) * y.d, (x.im * y.re - x.re * y.im) * y.d,
          x.d * n2)

Small(x) == Abs(x.re) <= MaxNum /\ Abs(x.im) <= MaxNum /\ x.d <= MaxNum

(***************************************************************************)
(* numpy arrays: a shape and one entry per index tuple (1-based)           *)
(***************************************************************************)
RECURSIVE SeqMax(_)
SeqMax(s) == IF s = <<>> THEN 0
             ELSE LET m == SeqMax(Tail(s)) IN IF Head(s) > m THEN Head(s) ELSE m

Idx(shape) ==
    {t \in [1..Len(shape) -> 1..SeqMax(shape)] : \A i \in 1..Len(shape) : t[i] <= shape[i]}

Tensor(shape, f(_)) == [shape |-> shape, val |-> [t \in Idx(shape) |-> f(t)]]

Fill(shape, v) == Tensor(shape, LAMBDA t : v)

ndim(A) == Len(A.shape)

\* np.identity(n)
identity(n) == Tensor(<<n, n>>, LAMBDA t : IF t[1] = t[2] THEN One ELSE Zero)

\* A[None,:,:]
AddAxis(A) == [shape |-> <<1>> \o A.shape,
               val |-> [t \in Idx(<<1>> \o A.shape) |-> A.val[Tail(t)]]]

\* numpy broadcasting of an operand of shape src against a destination of
\* shape dst that must keep its shape (in-place operators, self.data[...] = X)
Broadcastable(src, dst) ==
    /\ Len(src) <= Len(dst)
    /\ \A i \in 1..Len(src) :
          LET j == Len(dst) - Len(src) + i IN src[i] = 1 \/ src[i] = dst[j]

\* the entry of X that broadcasting pairs with index t of the destination
BroadcastAt(X, dst, t) ==
    LET k == Len(dst) - Len(X.shape)
    IN  X.val[[i \in 1..Len(X.shape) |-> IF X.shape[i] = 1 THEN 1 ELSE t[k + i]]]

\* a * X for a scalar a
Scale(a, X) == [shape |-> X.shape, val |-> [t \in Idx(X.shape) |-> QMul(a, X.val[t])]]

\* D[...] = X
AssignAll(D, X) == Tensor(D.shape, LAMBDA t : BroadcastAt(X, D.shape, t))

\* D[...] += X,  D += X
AddInto(D, X) == Tensor(D.shape, LAMBDA t : QAdd(D.val[t], BroadcastAt(X, D.shape, t)))

AllSmall(A) == \A t \in Idx(A.shape) : Small(A.val[t])

(***************************************************************************)
(* meshes.py                                                               *)
(***************************************************************************)
StatStrs == {"Fermion", "Boson"}
NotAStr == "<not a str>"                     \* any statistic argument that is no str
BetaOverPi == {1, 2}                         \* beta = b*pi

\* np.arange(lo, hi)
arange(lo, hi) == [j \in 1..(IF hi > lo THEN hi - lo ELSE 0) |-> lo + j - 1]

MeshImFreq_init_ok(statistic) == statistic # NotAStr

\* a mesh that includes the end point n_points
MeshImFreq_inclusive(beta, statistic, n_points) ==
    [beta |-> beta, statistic |-> statistic, points |-> arange(-n_points, n_points + 1)]

MeshImFreq(beta, statistic, n_points) ==
    [beta |-> beta, statistic |-> statistic, points |-> arange(-n_points, n_points)]

size(mesh) == Len(mesh.points)

(***************************************************************************)
(* gf.py: index sets                                                       *)
(***************************************************************************)
RECURSIVE IntStr(_)
IntStr(n) ==
    IF n < 0 THEN "-" \o IntStr(-n)
    ELSE IF n < 10 THEN <<"0", "1", "2", "3", "4", "5", "6", "7", "8", "9">>[n + 1]
    ELSE IntStr(n \div 10) \o IntStr(n % 10)

\* repr of a Python list of str
RECURSIVE ReprItems(_)
ReprItems(l) ==
    IF l = <<>> THEN ""
    ELSE "'" \o Head(l) \o "'" \o (IF Len(l) > 1 THEN ", " ELSE "") \o ReprItems(Tail(l))

\* An element of the list passed as indices is a str, an int or a list of
\* str; str(x) of it
PyStr(x) ==
    CASE x.k = "str" -> x.s
      [] x.k = "int" -> IntStr(x.n)
      [] x.k = "list" -> "[" \o ReprItems(x.l) \o "]"

StrEl(s) == [k |-> "str", s |-> s]
IntEl(n) == [k |-> "int", n |-> n]
ListEl(l) == [k |-> "list", l |-> l]

\* list(map(str, indices))
mapstr(indices) == [i \in 1..Len(indices) |-> StrEl(PyStr(indices[i]))]

\* _is_list_of(objs, expected_elem_type) for a list objs
is_list_of(objs, expected_elem_type) ==
    \A i \in 1..Len(objs) : objs[i].k = expected_elem_type

\* _to_utf8_strings: bytes are decoded, a str is kept; the result is a new list
to_utf8_strings(str_list) == [i \in 1..Len(str_list) |-> str_list[i].s]

\* GfIndices(indices)._data
GfIndices(indices) == [i \in 1..Len(indices) |-> to_utf8_strings(indices[i])]

\* list(map(str, np.arange(n)))
RangeLabels(n) == [i \in 1..n |-> StrEl(IntStr(arange(0, n)[i]))]

(***************************************************************************)
(* gf.py: Gf.__init__ (delegate)                                           *)
(*                                                                         *)
(* Arguments: a.data is absent ("none"), a new array ("fresh") or the      *)
(* array another container already holds ("alias"); D is that array.       *)
(* a.indices is absent, a Python list ("list", of str, int or list         *)
(* elements) or any other object ("other"); a.mesh is absent or a mesh;    *)
(* a.n_points is NoneN when absent.  garbage is what np.empty finds in     *)
(* the memory it returns.                                                  *)
(***************************************************************************)
NoneN == -1
NoTag == [tag |-> "none"]
DataFields == {"data", "target_shape", "name", "beta", "statistic"}

Fail(err, fields) == [status |-> err, fields |-> fields]

\* lines 115-117: n_points given although data or mesh is given as well
n_points_conflict_lax(a) == a.n_points # NoneN /\ a.data.tag # "none" /\ a.mesh.tag # "none"
n_points_conflict(a) == a.n_points # NoneN /\ (a.data.tag # "none" \/ a.mesh.tag # "none")

delegate(a, D, garbage) ==
    LET \* lines 100-101
        indices1 == IF a.indices.tag = "list"
                    THEN [tag |-> "list", v |-> mapstr(a.indices.v)]
                    ELSE a.indices
    IN
    \* lines 102-111
    IF indices1.tag = "other" THEN Fail("ValueError", {})
    ELSE IF indices1.tag = "list" /\ ~is_list_of(indices1.v, "str")
    THEN Fail("AssertionError", {})
    ELSE
    LET indices2 == IF indices1.tag = "none" THEN NoTag
                    ELSE [tag |-> "GfIndices", v |-> GfIndices(<<indices1.v, indices1.v>>)]
    IN
    \* lines 115-118
    IF n_points_conflict(a) THEN Fail("AssertionError", {})
    ELSE IF a.n_points # NoneN /\ ~MeshImFreq_init_ok(a.statistic)
    THEN Fail("AssertionError", {})
    ELSE
    LET mesh1 == IF a.n_points # NoneN
                 THEN [tag |-> "mesh", m |-> MeshImFreq(a.beta, a.statistic, a.n_points)]
                 ELSE a.mesh
    IN
    \* lines 120-124
    IF a.data.tag = "none" /\ indices2.tag = "none" THEN Fail("AssertionError", {})
    ELSE IF a.data.tag = "none" /\ mesh1.tag = "none" THEN Fail("AttributeError", {})
    ELSE
    LET data1 == IF a.data.tag = "none"
                 THEN Fill(<<size(mesh1.m), Len(indices2.v[1]), Len(indices2.v[2])>>, garbage)
                 ELSE D
    IN
    \* lines 126-136
    IF mesh1.tag = "none" /\ ~MeshImFreq_init_ok(a.statistic)
    THEN Fail("AssertionError", DataFields)
    ELSE
    LET mesh2 == IF mesh1.tag = "none"
                 THEN MeshImFreq(a.beta, a.statistic, data1.shape[1] \div 2)
                 ELSE mesh1.m
        \* lines 138-142
        indices3 == IF indices2.tag = "none"
                    THEN GfIndices(<<RangeLabels(data1.shape[2]), RangeLabels(data1.shape[3])>>)
                    ELSE indices2.v
    IN  [status |-> "ok", fields |-> DataFields \cup {"mesh", "indices"},
         data |-> data1, name |-> a.name, beta |-> a.beta, statistic |-> a.statistic,
         mesh |-> mesh2, indices |-> indices3]

(***************************************************************************)
(* State                                                                   *)
(*   gfs    : the containers alive, by slot                                *)
(*   arrays : the heap of numpy arrays, by address                         *)
(*   ret    : the last call: operation, arguments, outcome                 *)
(*   it     : a mesh and the generator iterating it                        *)
(*   nops   : the number of calls made on the constructed containers       *)
(***************************************************************************)
Gid == 1..MaxGf
Addr == 1..MaxGf
NoGf == [kind |-> "none"]
NoArr == [shape |-> <<0>>, val |-> <<>>]
NoIt == [mesh |-> MeshImFreq(1, "Fermion", 0), n |-> 0, live |-> FALSE,
         gen |-> "none", pos |-> 0, out |-> <<>>, runs |-> <<>>]

Live(G) == {g \in Gid : G[g] # NoGf}

\* the array a container holds
DataOf(G, A, g) == A[G[g].data]

\* addresses no container other than g refers to; the smallest is handed out
FreeAddr(G, g) == CHOOSE x \in Addr :
    /\ \A h \in Live(G) \ {g} : G[h].data # x
    /\ \A y \in Addr : (\A h \in Live(G) \ {g} : G[h].data # y) => x <= y

\* arrays no container refers to are reclaimed
Collect(G, A) == [x \in Addr |-> IF \E h \in Live(G) : G[h].data = x THEN A[x] ELSE NoArr]

shape_of(A, G, g) == DataOf(G, A, g).shape

\* Gf.shape, indices[0], indices[1]
shape(g) == DataOf(gfs, arrays, g).shape
left(g) == gfs[g].indices[1]
right(g) == gfs[g].indices[2]

NewSlot == CHOOSE g \in Gid : gfs[g] = NoGf /\ \A h \in Gid : gfs[h] = NoGf => g <= h

Init ==
    /\ gfs = [g \in Gid |-> NoGf]
    /\ arrays = [x \in Addr |-> NoArr]
    /\ ret = [op |-> "init", status |-> "ok", self |-> 0, new |-> 0, arg |-> NoTag]
    /\ it = NoIt
    /\ nops = 0

\* one more call on the containers
Step == nops < MaxOps /\ nops' = nops + 1

\* the container the constructor leaves, its data at address addr
Container(cls, r, addr) ==
    [kind |-> cls, data |-> addr, name |-> r.name, beta |-> r.beta,
     statistic |-> r.statistic, mesh |-> r.mesh, indices |-> r.indices]

\* g = cls(**a)
Construct(cls, a, garbage) ==
    /\ \E g \in Gid : gfs[g] = NoGf
    /\ a.data.tag = "alias" => a.data.g \in Live(gfs)
    /\ LET g == NewSlot
           D == IF a.data.tag = "alias" THEN DataOf(gfs, arrays, a.data.g)
                ELSE IF a.data.tag = "fresh" THEN a.data.t ELSE NoArr
           r == delegate(a, D, garbage)
           addr == IF a.data.tag = "alias" THEN gfs[a.data.g].data ELSE FreeAddr(gfs, g)
       IN  /\ IF r.status = "ok"
              THEN /\ gfs' = [gfs EXCEPT ![g] =
                               [kind |-> cls, data |-> addr, name |-> r.name,
                                beta |-> r.beta, statistic |-> r.statistic,
                                mesh |-> r.mesh, indices |-> r.indices]]
                   /\ arrays' = [arrays EXCEPT ![addr] = r.data]
              ELSE UNCHANGED <<gfs, arrays>>
           /\ ret' = [op |-> "ctor", status |-> r.status, self |-> 0,
                      new |-> IF r.status = "ok" THEN g ELSE 0,
                      arg |-> [a |-> a, fields |-> r.fields, garbage |-> garbage]]
    /\ UNCHANGED <<it, nops>>

\* del g
Drop(g) ==
    /\ gfs[g] # NoGf
    /\ gfs' = [gfs EXCEPT ![g] = NoGf]
    /\ arrays' = Collect(gfs', arrays)
    /\ ret' = [op |-> "del", status |-> "ok", self |-> g, new |-> 0, arg |-> NoTag]
    /\ UNCHANGED <<it, nops>>

(***************************************************************************)
(* gf.py: operations on a container                                        *)
(***************************************************************************)
RECURSIVE QSumSeq(_)
QSumSeq(s) == IF s = <<>> THEN Zero ELSE QAdd(Head(s), QSumSeq(Tail(s)))

Without(s, j) == [i \in 1..(Len(s) - 1) |-> IF i < j THEN s[i] ELSE s[i + 1]]
Sign(k) == IF k % 2 = 0 THEN One ELSE QNeg(One)

\* determinant of the submatrix of D[w] on the given rows and columns
RECURSIVE Det(_, _, _, _)
Det(D, w, rows, cols) ==
    IF rows = <<>> THEN One
    ELSE QSumSeq([j \in 1..Len(cols) |->
            QMul(QMul(Sign(j + 1), D.val[<<w, rows[1], cols[j]>>]),
                 Det(D, w, Tail(rows), Without(cols, j)))])

\* np.linalg.inv(D) of a rank-3 tensor: the inverse of every D[w]
Invertible(D) ==
    /\ D.shape[2] = D.shape[3]
    /\ \A w \in 1..D.shape[1] :
          Det(D, w, arange(1, D.shape[2] + 1), arange(1, D.shape[2] + 1)) # Zero

\* the cofactors over the determinant, without the transposition
linalg_cofactors(D) ==
    LET all == arange(1, D.shape[2] + 1)
    IN  Tensor(D.shape, LAMBDA t :
            QDiv(QMul(Sign(t[2] + t[3]), Det(D, t[1], Without(all, t[2]), Without(all, t[3]))),
                 Det(D, t[1], all, all)))

linalg_inv(D) ==
    LET all == arange(1, D.shape[2] + 1)
    IN  Tensor(D.shape, LAMBDA t :
            QDiv(QMul(Sign(t[2] + t[3]), Det(D, t[1], Without(all, t[3]), Without(all, t[2]))),
                 Det(D, t[1], all, all)))

Done(D) == [status |-> "ok", data |-> D]
Raise(err) == [status |-> err]

\* an operand that is a numpy array
NdArray(t) == [tag |-> "ndarray", t |-> t]

\* A coefficient of a LinearExpression is a scalar or a matrix (ndarray)
Scalar(v) == [tag |-> "scalar", v |-> v]
Matrix(m) == [tag |-> "matrix", m |-> m]

\* _convert_to_matrix(a, g), D the data of g
convert_to_matrix(a, D) ==
    IF a.tag = "scalar" THEN Scale(a.v, identity(D.shape[2])) ELSE a.m

\* 1J*g.mesh.points * np.pi/g.beta, with beta = b*pi
iv_of(points, b) == [j \in 1..Len(points) |-> QMul(ImagUnit, Q(points[j], 0, b))]

\* LinearExpression.evaluate(g): the data of the container it returns
LinearExpression_evaluate(e, G, A, g) ==
    LET D == DataOf(G, A, g)
        res0 == Fill(D.shape, Zero)
        a0_ == convert_to_matrix(e.a0, D)
        a1_ == convert_to_matrix(e.a1, D)
        iv == iv_of(G[g].mesh.points, G[g].beta)
        term == Tensor(<<Len(iv), a1_.shape[1], a1_.shape[2]>>,
                       LAMBDA t : QMul(iv[t[1]], a1_.val[<<t[2], t[3]>>]))
    IN  IF ~Broadcastable(AddAxis(a0_).shape, D.shape) THEN Raise("ValueError")
        ELSE IF ~Broadcastable(term.shape, D.shape) THEN Raise("ValueError")
        ELSE Done(AddInto(AddInto(res0, AddAxis(a0_)), term))

\* GfImFreq.inverse applied to a container of the given kind holding D:
\* the data of the container it returns
inverse_data(kind, D) ==
    IF kind # "GfImFreq" THEN Raise("AttributeError")
    ELSE IF ~Invertible(D) THEN Raise("LinAlgError")
    ELSE Done(linalg_inv(D))

\* InverseLinearExpression.evaluate(g)
InverseLinearExpression_evaluate(e, G, A, g) ==
    LET r == LinearExpression_evaluate(e, G, A, g)
    IN  IF r.status # "ok" THEN r ELSE inverse_data(G[g].kind, r.data)

\* self.data[...] = X
assign_data(D, X) ==
    IF Broadcastable(X.shape, D.shape) THEN Done(AssignAll(D, X)) ELSE Raise("ValueError")

\* Gf.__lshift__ for an ndarray T (lines 160-165), without the check of the rank
lshift_ndarray_any_rank(D, T) ==
    IF ndim(T) = 2 THEN assign_data(D, AddAxis(T)) ELSE assign_data(D, T)

\* Gf.__lshift__ for an ndarray T (lines 160-165)
lshift_ndarray(D, T) ==
    IF ndim(T) = 3 THEN assign_data(D, T)
    ELSE IF ndim(T) = 2 THEN assign_data(D, AddAxis(T))
    ELSE Raise("RuntimeError: Invalid ndarray A!")

\* Gf.__lshift__ for an operand that is no container: what self.data becomes
lshift_data(G, A, g, x) ==
    LET D == DataOf(G, A, g)
    IN  IF x.tag = "ndarray" THEN lshift_ndarray(D, x.t)
        ELSE IF x.tag = "LinearExpression"
        THEN LET r == LinearExpression_evaluate(x, G, A, g)
             IN  IF r.status = "ok" THEN assign_data(D, r.data) ELSE r
        ELSE IF x.tag = "InverseLinearExpression"
        THEN LET r == InverseLinearExpression_evaluate(x, G, A, g)
             IN  IF r.status = "ok" THEN assign_data(D, r.data) ELSE r
        ELSE Raise("RuntimeError: Invalid type of A!")

Call(op, status, self, new, arg) ==
    [op |-> op, status |-> status, self |-> self, new |-> new, arg |-> arg]

\* the heap after the data array of g is overwritten by D
Store(g, D) == [arrays EXCEPT ![gfs[g].data] = D]

\* g.zero()
zero(g) ==
    /\ gfs[g] # NoGf
    /\ arrays' = Store(g, Fill(shape_of(arrays, gfs, g), Zero))
    /\ ret' = Call("zero", "ok", g, 0, NoTag)
    /\ Step
    /\ UNCHANGED <<gfs, it>>

\* a copy that keeps the array of the source
shallow_addr(G, g, slot) == G[g].data

\* deepcopy(self): the copy owns a new array with the same entries
deepcopy_addr(G, g, slot) == FreeAddr(G, slot)

\* c = g.copy()
copy(g) ==
    /\ gfs[g] # NoGf
    /\ \E c \in Gid : gfs[c] = NoGf
    /\ LET c == NewSlot
           addr == deepcopy_addr(gfs, g, c)
       IN  /\ gfs' = [gfs EXCEPT ![c] = [gfs[g] EXCEPT !.data = addr]]
           /\ arrays' = [arrays EXCEPT ![addr] = DataOf(gfs, arrays, g)]
           /\ ret' = Call("copy", "ok", g, c, NoTag)
    /\ Step
    /\ UNCHANGED it

\* self.data = A.data, without the copy
lshift_alias_addr(G, g, h) == G[h].data

\* copy(A.data) in self << A: the address of the array self.data becomes
lshift_copy_addr(G, g, h) == FreeAddr(G, g)

\* the attributes self << A takes from the container A
lshift_attrs(me, other, addr) ==
    [me EXCEPT !.data = addr, !.name = other.name, !.beta = other.beta,
               !.statistic = other.statistic]

\* g << h for a container h
lshift_gf(g, h) ==
    /\ gfs[g] # NoGf /\ gfs[h] # NoGf
    /\ LET addr == lshift_copy_addr(gfs, g, h)
           D == DataOf(gfs, arrays, h)
       IN  /\ gfs' = [gfs EXCEPT ![g] = lshift_attrs(gfs[g], gfs[h], addr)]
           /\ arrays' = Collect(gfs', [arrays EXCEPT ![addr] = D])
    /\ ret' = Call("lshift", "ok", g, 0, [tag |-> "Gf", g |-> h])
    /\ Step
    /\ UNCHANGED it

\* g << x for an ndarray, a LinearExpression, an InverseLinearExpression or
\* an object of another type
lshift(g, x) ==
    /\ gfs[g] # NoGf
    /\ LET r == lshift_data(gfs, arrays, g, x)
       IN  /\ IF r.status = "ok" THEN arrays' = Store(g, r.data) ELSE UNCHANGED arrays
           /\ ret' = Call("lshift", r.status, g, 0, x)
    /\ Step
    /\ UNCHANGED <<gfs, it>>

\* X.data of an operand: the tensor of a container, the buffer of an ndarray
\* (numpy reads it back as the array itself)
data_of_operand(G, A, x) == IF x.tag = "Gf" THEN DataOf(G, A, x.g) ELSE x.t

\* D += X
add_into(D, X) ==
    IF Broadcastable(X.shape, D.shape) THEN Done(AddInto(D, X)) ELSE Raise("ValueError")

\* g += x for a container or an ndarray x
iadd(g, x) ==
    /\ gfs[g] # NoGf
    /\ x.tag = "Gf" => gfs[x.g] # NoGf
    /\ LET r == add_into(DataOf(gfs, arrays, g), data_of_operand(gfs, arrays, x))
       IN  /\ r.status = "ok" => AllSmall(r.data)
           /\ IF r.status = "ok" THEN arrays' = Store(g, r.data) ELSE UNCHANGED arrays
           /\ ret' = Call("iadd", r.status, g, 0, x)
    /\ Step
    /\ UNCHANGED <<gfs, it>>

\* Gf.__add__: what res.data becomes after res = self.copy()
add_data(G, A, g, x) ==
    LET D == DataOf(G, A, g)
    IN  IF x.tag = "Gf" /\ G[x.g].kind = G[g].kind
        THEN add_into(D, data_of_operand(G, A, x))
        ELSE IF x.tag = "ndarray"
        THEN IF ndim(x.t) = 3 THEN add_into(D, data_of_operand(G, A, x))
             \* other.data[None,:,:] indexes the buffer of the ndarray
             ELSE IF ndim(x.t) = 2 THEN Raise("TypeError")
             ELSE Raise("RuntimeError: Invalid ndarray!")
        ELSE Done(D)

\* res = g + x
add(g, x) ==
    /\ gfs[g] # NoGf
    /\ x.tag = "Gf" => gfs[x.g] # NoGf
    /\ \E c \in Gid : gfs[c] = NoGf
    /\ LET c == NewSlot
           addr == deepcopy_addr(gfs, g, c)
           r == add_data(gfs, arrays, g, x)
       IN  /\ r.status = "ok" => AllSmall(r.data)
           /\ IF r.status = "ok"
              THEN /\ gfs' = [gfs EXCEPT ![c] = [gfs[g] EXCEPT !.data = addr]]
                   /\ arrays' = [arrays EXCEPT ![addr] = r.data]
              ELSE UNCHANGED <<gfs, arrays>>
           /\ ret' = Call("add", r.status, g, IF r.status = "ok" THEN c ELSE 0, x)
    /\ Step
    /\ UNCHANGED it

\* c = g.inverse()  (inverse(g)): defined by GfImFreq only
inverse(g) ==
    /\ gfs[g] # NoGf
    /\ \E c \in Gid : gfs[c] = NoGf
    /\ LET c == NewSlot
           addr == deepcopy_addr(gfs, g, c)
           r == inverse_data(gfs[g].kind, DataOf(gfs, arrays, g))
       IN  /\ IF r.status = "ok"
              THEN /\ gfs' = [gfs EXCEPT ![c] = [gfs[g] EXCEPT !.data = addr]]
                   /\ arrays' = [arrays EXCEPT ![addr] = r.data]
              ELSE UNCHANGED <<gfs, arrays>>
           /\ ret' = Call("inverse", r.status, g, IF r.status = "ok" THEN c ELSE 0, NoTag)
    /\ Step
    /\ UNCHANGED it

\* np.isscalar(other)
isscalar(x) == x.tag = "scalar"

\* A binary operator whose method returned NotImplemented (lines 244, 253,
\* 260): Python turns to the reflected method of the other operand, for
\* g /= x after turning to g / x.  An ndarray applies the operator to the
\* container and each of its entries, which are scalars, and returns the
\* array of the results; a container, a list, None implement no operator
\* with a container and the statement raises TypeError.
reflected(x) == IF x.tag = "ndarray" THEN "ok" ELSE "TypeError"

\* the data of the containers an ndarray operand collects, one per entry
elementwise(D, x, f(_, _)) ==
    [t \in Idx(x.t.shape) |-> Tensor(D.shape, LAMBDA u : f(D.val[u], x.t.val[t]))]

\* res = self.copy(); res.data *= other (res /= other); return res
scaled(op, g, x, f(_, _)) ==
    /\ gfs[g] # NoGf
    /\ x.tag = "Gf" => gfs[x.g] # NoGf
    /\ LET D == DataOf(gfs, arrays, g)
       IN  IF isscalar(x)
           THEN /\ \E c \in Gid : gfs[c] = NoGf
                /\ LET c == NewSlot
                       addr == deepcopy_addr(gfs, g, c)
                       R == Tensor(D.shape, LAMBDA t : f(D.val[t], x.v))
                   IN  /\ AllSmall(R)
                       /\ gfs' = [gfs EXCEPT ![c] = [gfs[g] EXCEPT !.data = addr]]
                       /\ arrays' = [arrays EXCEPT ![addr] = R]
                       /\ ret' = Call(op, "ok", g, c, x)
           ELSE /\ UNCHANGED <<gfs, arrays>>
                /\ ret' = [op |-> op, status |-> reflected(x), self |-> g, new |-> 0,
                           arg |-> x,
                           value |-> IF x.tag = "ndarray" THEN elementwise(D, x, f) ELSE <<>>]
    /\ Step
    /\ UNCHANGED it

\* g * x,  x * g  (__rmul__ = __mul__),  g / x
mul(g, x) == scaled("mul", g, x, QMul)
rmul(g, x) == scaled("rmul", g, x, QMul)
truediv(g, x) == scaled("truediv", g, x, QDiv)

\* g /= x
itruediv(g, x) ==
    /\ gfs[g] # NoGf
    /\ x.tag = "Gf" => gfs[x.g] # NoGf
    /\ IF x.tag = "scalar"
       THEN LET D == DataOf(gfs, arrays, g)
                R == Tensor(D.shape, LAMBDA t : QDiv(D.val[t], x.v))
            IN  /\ AllSmall(R)
                /\ arrays' = Store(g, R)
                /\ ret' = Call("itruediv", "ok", g, 0, x)
       ELSE /\ UNCHANGED arrays
            /\ ret' = Call("itruediv", reflected(x), g, 0, x)
    /\ Step
    /\ UNCHANGED <<gfs, it>>

\* the contraction without its right factor
einsum_LG(Lm, D, Rm) ==
    Tensor(<<D.shape[1], Lm.shape[1], Rm.shape[2]>>, LAMBDA t :
        QSumSeq([k \in 1..(D.shape[2] * D.shape[3]) |->
            LET c == ((k - 1) \div D.shape[3]) + 1
                d == ((k - 1) % D.shape[3]) + 1
            IN  QMul(Lm.val[<<t[2], c>>], D.val[<<t[1], c, d>>])]))

\* np.einsum('ac,wcd,db->wab', L, G.data, R)
einsum_LGR(Lm, D, Rm) ==
    Tensor(<<D.shape[1], Lm.shape[1], Rm.shape[2]>>, LAMBDA t :
        QSumSeq([k \in 1..(D.shape[2] * D.shape[3]) |->
            LET c == ((k - 1) \div D.shape[3]) + 1
                d == ((k - 1) % D.shape[3]) + 1
            IN  QMul(QMul(Lm.val[<<t[2], c>>], D.val[<<t[1], c, d>>]), Rm.val[<<d, t[3]>>])]))

\* the assertions of from_L_G_R without the one on the rows of L
LGR_compatible_lax(S, Lm, D, Rm) ==
    /\ ndim(Lm) = 2
    /\ ndim(Rm) = 2
    /\ Lm.shape[2] = D.shape[2]
    /\ D.shape[3] = Rm.shape[1]
    /\ Rm.shape[2] = S.shape[3]
    /\ D.shape[1] = S.shape[1]

\* the assertions of from_L_G_R, in order
LGR_compatible(S, Lm, D, Rm) ==
    /\ ndim(Lm) = 2
    /\ ndim(Rm) = 2
    /\ Lm.shape[1] = S.shape[2]
    /\ Lm.shape[2] = D.shape[2]
    /\ D.shape[3] = Rm.shape[1]
    /\ Rm.shape[2] = S.shape[3]
    /\ D.shape[1] = S.shape[1]

\* g.from_L_G_R(Lm, h, Rm)
from_L_G_R(g, Lm, h, Rm) ==
    /\ gfs[g] # NoGf /\ gfs[h] # NoGf
    /\ LET S == DataOf(gfs, arrays, g)
           D == DataOf(gfs, arrays, h)
           arg == [tag |-> "LGR", L |-> Lm, G |-> h, R |-> Rm]
       IN  IF LGR_compatible(S, Lm, D, Rm)
           THEN LET out == AssignAll(S, einsum_LGR(Lm, D, Rm))
                IN  /\ AllSmall(out)
                    /\ arrays' = Store(g, out)
                    /\ ret' = Call("from_L_G_R", "ok", g, 0, arg)
           ELSE /\ UNCHANGED arrays
                /\ ret' = Call("from_L_G_R", "AssertionError", g, 0, arg)
    /\ Step
    /\ UNCHANGED <<gfs, it>>

(***************************************************************************)
(* gf.py: the algebra of LinearExpression.  An expression is a value       *)
(* [a0, a1]; a call returns a new expression, a container (e + g) or       *)
(* fails.                                                                  *)
(***************************************************************************)
LinExp(a0, a1) == [tag |-> "LinearExpression", a0 |-> a0, a1 |-> a1]

\* X + Y for two matrices, with numpy's broadcasting
np_broadcastable(X, Y) ==
    /\ ndim(X) = ndim(Y)
    /\ \A i \in 1..ndim(X) : X.shape[i] = Y.shape[i] \/ X.shape[i] = 1 \/ Y.shape[i] = 1

np_add(X, Y) ==
    LET sh == [i \in 1..ndim(X) |-> IF X.shape[i] > Y.shape[i] THEN X.shape[i] ELSE Y.shape[i]]
    IN  Tensor(sh, LAMBDA t : QAdd(BroadcastAt(X, sh, t), BroadcastAt(Y, sh, t)))

\* other * a for a scalar other and a coefficient a
coef_mul(other, a) ==
    IF a.tag = "scalar" THEN Scalar(QMul(other, a.v)) ELSE Matrix(Scale(other, a.m))

Returned(v) == [status |-> "ok", value |-> v]

\* LinearExpression.__mul__
LinearExpression_mul(e, other) ==
    IF isscalar(other) THEN Returned(LinExp(coef_mul(other.v, e.a0), coef_mul(other.v, e.a1)))
    ELSE IF other.tag = "ndarray"
    \* NotImplemented: the ndarray multiplies the expression with each entry
    THEN Returned([tag |-> "ndarray of LinearExpression",
                   val |-> [t \in Idx(other.t.shape) |->
                              LinExp(coef_mul(other.t.val[t], e.a0),
                                     coef_mul(other.t.val[t], e.a1))]])
    ELSE Raise(reflected(other))

\* line 384 with a scalar a0 added to every entry of the matrix
promote_all(a0, other) ==
    IF a0.tag = "matrix" THEN a0.m ELSE Fill(other.shape, a0.v)

\* line 384: a0 as a matrix, a scalar times np.identity(other.shape[0])
promote(a0, other) ==
    IF a0.tag = "matrix" THEN a0.m ELSE Scale(a0.v, identity(other.shape[1]))

\* LinearExpression.__add__ for a scalar, an ndarray or another object that
\* is no GfImFreq
LinearExpression_add(e, other) ==
    IF isscalar(other)
    THEN IF e.a0.tag = "scalar" THEN Returned(LinExp(Scalar(QAdd(e.a0.v, other.v)), e.a1))
         ELSE Raise("AssertionError")
    ELSE IF other.tag = "ndarray"
    THEN LET a0_ == promote(e.a0, other.t)
         IN  IF np_broadcastable(a0_, other.t)
             THEN Returned(LinExp(Matrix(np_add(a0_, other.t)), e.a1))
             ELSE Raise("ValueError")
    ELSE Raise(reflected(other))

\* (-1) * other
negated(other) ==
    IF isscalar(other) THEN Scalar(QNeg(other.v))
    ELSE IF other.tag = "ndarray" THEN NdArray(Scale(QNeg(One), other.t))
    ELSE other

\* LinearExpression.__sub__ for a scalar, an ndarray or another object that
\* is no GfImFreq
LinearExpression_sub(e, other) == LinearExpression_add(e, negated(other))

\* self.evaluate(other) + other for a GfImFreq holding D, sign * D added
LinearExpression_add_gf(e, G, A, g, sign) ==
    IF G[g].kind # "GfImFreq" THEN Raise("TypeError")
    ELSE LET r == LinearExpression_evaluate(e, G, A, g)
         IN  IF r.status # "ok" THEN r
             ELSE add_into(r.data, Scale(sign, DataOf(G, A, g)))

(***************************************************************************)
(* gf.py, meshes.py: the archive interface.  A group of the archive is a    *)
(* record of its leaves; ret holds the group last written.                 *)
(***************************************************************************)
\* self.statistic[0]
first_letter(statistic) ==
    IF statistic = "Fermion" THEN "F" ELSE IF statistic = "Boson" THEN "B" ELSE "?"

\* MeshImFreq.__write_hdf5__
MeshImFreq_write_hdf5(mesh) ==
    [Format |-> "MeshImFreq", positive_freq_only |-> FALSE, size |-> size(mesh),
     domain |-> [beta |-> mesh.beta, statistic |-> first_letter(mesh.statistic)]]

\* _to_fixed_length_utf8_array: the labels as an array of utf-8 bytes
to_fixed_length_utf8_array(str_list) ==
    [i \in 1..Len(str_list) |-> [k |-> "bytes", s |-> str_list[i]]]

\* GfIndices.__write_hdf5__
GfIndices_write_hdf5(indices) ==
    [Format |-> "GfIndices", left |-> to_fixed_length_utf8_array(indices[1]),
     right |-> to_fixed_length_utf8_array(indices[2])]

\* GfIndices.__factory_from_dict__
GfIndices_factory_from_dict(d) == GfIndices(<<d.left, d.right>>)

\* Gf.__write_hdf5__
Gf_write_hdf5(G, A, g) ==
    [Format |-> "Gf", data |-> DataOf(G, A, g), mesh |-> MeshImFreq_write_hdf5(G[g].mesh),
     indices |-> GfIndices_write_hdf5(G[g].indices)]

\* the archive reading a group back: every subgroup is rebuilt by the class
\* registered for its Format before the factory of the group is called; a
\* mesh group gives MeshImFreq(beta, statistic, size//2)
read_group(d) ==
    [data |-> d.data,
     mesh |-> MeshImFreq(d.mesh.domain.beta,
                         IF d.mesh.domain.statistic = "F" THEN "Fermion" ELSE "Boson",
                         d.mesh.size \div 2),
     indices |-> GfIndices_factory_from_dict(d.indices)]

\* the arguments Gf.__factory_from_dict__ passes to the constructor
factory_args(dict) ==
    [data |-> [tag |-> "fresh", t |-> dict.data], name |-> "",
     beta |-> dict.mesh.beta, statistic |-> dict.mesh.statistic,
     mesh |-> [tag |-> "mesh", m |-> dict.mesh], indices |-> NoTag, n_points |-> NoneN]

\* g.__write_hdf5__(group, key)
write_hdf5(g) ==
    /\ gfs[g] # NoGf
    /\ ret' = Call("write_hdf5",
                   IF ndim(DataOf(gfs, arrays, g)) = 3 THEN "ok" ELSE "AssertionError",
                   g, 0, Gf_write_hdf5(gfs, arrays, g))
    /\ Step
    /\ UNCHANGED <<gfs, arrays, it>>

\* c = Gf.__factory_from_dict__(key, dict) for the group written last
factory_from_dict ==
    /\ ret.op = "write_hdf5" /\ ret.status = "ok"
    /\ \E c \in Gid : gfs[c] = NoGf
    /\ LET c == NewSlot
           a == factory_args(read_group(ret.arg))
           r == delegate(a, a.data.t, Zero)
           addr == FreeAddr(gfs, c)
       IN  /\ IF r.status = "ok"
              THEN /\ gfs' = [gfs EXCEPT ![c] = Container(ret.arg.Format, r, addr)]
                   /\ arrays' = [arrays EXCEPT ![addr] = r.data]
              ELSE UNCHANGED <<gfs, arrays>>
           /\ ret' = Call("factory_from_dict", r.status, ret.self,
                          IF r.status = "ok" THEN c ELSE 0, ret.arg)
    /\ Step
    /\ UNCHANGED it

\* e * x, e + x, e - x: the expression e, the operand x and what is returned
LeCall(op, status, new, e, x, value) ==
    [op |-> op, status |-> status, self |-> 0, new |-> new,
     arg |-> [tag |-> "LinearExpression", e |-> e, x |-> x], value |-> value]

\* e op x for an operand that is no container
linexp(op, e, x) ==
    /\ x.tag # "Gf"
    /\ LET r == CASE op = "le_mul" -> LinearExpression_mul(e, x)
                   [] op = "le_add" -> LinearExpression_add(e, x)
                   [] op = "le_sub" -> LinearExpression_sub(e, x)
       IN  ret' = LeCall(op, r.status, 0, e, x, IF r.status = "ok" THEN r.value ELSE NoTag)
    /\ Step
    /\ UNCHANGED <<gfs, arrays, it>>

\* e + g, e - g for a container g: a new container; e * g has no meaning
linexp_gf(op, e, g) ==
    /\ gfs[g] # NoGf
    /\ \E c \in Gid : gfs[c] = NoGf
    /\ LET c == NewSlot
           addr == deepcopy_addr(gfs, g, c)
           r == IF op = "le_mul" THEN Raise("TypeError")
                ELSE LinearExpression_add_gf(e, gfs, arrays, g,
                                             IF op = "le_sub" THEN QNeg(One) ELSE One)
       IN  /\ IF r.status = "ok"
              THEN /\ gfs' = [gfs EXCEPT ![c] = [gfs[g] EXCEPT !.data = addr]]
                   /\ arrays' = [arrays EXCEPT ![addr] = r.data]
              ELSE UNCHANGED <<gfs, arrays>>
           /\ ret' = LeCall(op, r.status, IF r.status = "ok" THEN c ELSE 0, e,
                            [tag |-> "Gf", g |-> g], [tag |-> "Gf"])
    /\ Step
    /\ UNCHANGED it

(***************************************************************************)
(* The constructor on its own: every combination of arguments, one         *)
(* container at a time                                                     *)
(***************************************************************************)
GarbageVals == {Zero, One}
ShapesAll == {<<w, r, c>> : w \in 1..(MaxNPoints + 1), r \in 1..MaxDim, c \in 1..MaxDim}
DataArgsAll == {NoTag} \cup {[tag |-> "fresh", t |-> Fill(sh, ImagUnit)] : sh \in ShapesAll}
MeshArgsAll == {NoTag} \cup
    {[tag |-> "mesh", m |-> MeshImFreq(1, "Fermion", n)] : n \in 1..MaxNPoints}
IndicesArgsAll ==
    { NoTag, [tag |-> "other"],
      [tag |-> "list", v |-> <<StrEl("up")>>],
      [tag |-> "list", v |-> <<StrEl("up"), StrEl("dn")>>],
      [tag |-> "list", v |-> <<IntEl(0), IntEl(1)>>],
      [tag |-> "list", v |-> <<ListEl(<<"up">>), ListEl(<<"dn">>)>>],
      [tag |-> "list", v |-> <<ListEl(<<"a", "b">>), ListEl(<<"c">>)>>] }
CtorArgsAll ==
    [data : DataArgsAll, name : {"G"}, beta : {1},
     statistic : {"Fermion", NotAStr}, mesh : MeshArgsAll, indices : IndicesArgsAll,
     n_points : {NoneN} \cup (1..MaxNPoints)]

\* one constructor call on an empty heap
CtorNew == \E a \in CtorArgsAll, garbage \in GarbageVals :
              /\ ret.op \in {"init", "del"}
              /\ a.data.tag # "none" => garbage = Zero
              /\ Construct("Gf", a, garbage)
CtorDrop == \E g \in Gid : Drop(g)

NextCtor == CtorNew \/ CtorDrop
SpecCtor == Init /\ [][NextCtor]_vars

(***************************************************************************)
(* Containers in use: construction, assignment, arithmetic, copies         *)
(***************************************************************************)
Kinds == {"Gf", "GfImFreq"}
Labels(d) == [tag |-> "list", v |-> [i \in 1..d |-> IntEl(i - 1)]]

\* GfImFreq(beta=pi, indices=[0..d-1], n_points=n), the smallest and the
\* largest one
FirstArgs ==
    {[data |-> NoTag, name |-> "", beta |-> 1, statistic |-> "Fermion",
      mesh |-> NoTag, indices |-> Labels(p[1]), n_points |-> p[2]] :
        p \in {<<1, 1>>, <<MaxDim, MaxNPoints>>}}
\* cls(beta=2*pi, statistic='Boson', name='G', indices=[0], n_points=1)
SecondArgs ==
    [data |-> NoTag, name |-> "G", beta |-> 2, statistic |-> "Boson",
     mesh |-> NoTag, indices |-> Labels(1), n_points |-> 1]
\* cls(beta=2*pi, statistic='Boson', name='G', data=g.data)
AliasArgs ==
    [data |-> [tag |-> "alias", g |-> 1], name |-> "G", beta |-> 2, statistic |-> "Boson",
     mesh |-> NoTag, indices |-> NoTag, n_points |-> NoneN]

\* Two containers have been constructed: a GfImFreq, and a second container
\* that has its own data or holds the array of the first.  np.empty found
\* ones in the memory it returned.
InitMain ==
    \E a \in FirstArgs, cls \in Kinds, shared \in BOOLEAN, g1 \in {One} :
        LET r1 == delegate(a, NoArr, g1)
            r2 == IF shared THEN delegate(AliasArgs, r1.data, g1)
                  ELSE delegate(SecondArgs, NoArr, g1)
        IN  /\ gfs = [g \in Gid |-> IF g = 1 THEN Container("GfImFreq", r1, 1)
                                    ELSE IF g = 2 THEN Container(cls, r2, IF shared THEN 1 ELSE 2)
                                    ELSE NoGf]
            /\ arrays = [x \in Addr |-> IF x = 1 THEN r1.data
                                        ELSE IF x = 2 /\ ~shared THEN r2.data ELSE NoArr]
            /\ ret = Call("ctor", "ok", 0, 2, NoTag)
            /\ it = NoIt
            /\ nops = 0

iOmega_n == [tag |-> "LinearExpression", a0 |-> Scalar(Zero), a1 |-> Scalar(One)]
\* iOmega_n, iOmega_n + 1, iOmega_n + M
LinearExpressions ==
    { iOmega_n,
      [tag |-> "LinearExpression", a0 |-> Scalar(One), a1 |-> Scalar(One)],
      [tag |-> "LinearExpression", a0 |-> Matrix(Fill(<<MaxDim, MaxDim>>, One)),
       a1 |-> Scalar(One)] }
Inverse(e) == [e EXCEPT !.tag = "InverseLinearExpression"]
OtherObject == [tag |-> "other"]
\* operands of rank 1, 2 and 3
Rank1 == NdArray(Fill(<<1>>, One))
Rank2 == NdArray(Fill(<<1, 1>>, One))
Rank3 == NdArray(Fill(<<2, 1, 1>>, ImagUnit))
LshiftOperands ==
    LinearExpressions \cup {Inverse([iOmega_n EXCEPT !.a0 = Scalar(One)])}
        \cup {Rank1, Rank2, Rank3, OtherObject}
GfOperands == {[tag |-> "Gf", g |-> h] : h \in Gid}
Divisors == {Scalar(QNeg(One))}

Zeroing == \E g \in Gid : zero(g)
Copying == \E g \in Gid : copy(g)
LshiftGf == \E g, h \in Gid : lshift_gf(g, h)
Lshift == \E x \in LshiftOperands : lshift(1, x)
LshiftArray == \E g \in Gid : lshift(g, Rank2)
Iadd == \E g \in Gid, x \in GfOperands \cup {Rank2, Rank3} : iadd(g, x)
IaddGf == \E g, h \in Gid : iadd(g, [tag |-> "Gf", g |-> h])
Add == \E g \in Gid, x \in GfOperands \cup {Rank1, Rank2, Rank3, OtherObject} : add(g, x)
Itruediv == \E g \in Gid, x \in Divisors \cup {OtherObject} : itruediv(g, x)
FromLGR == \E g, h \in Gid :
              from_L_G_R(g, Fill(<<1, shape(h)[2]>>, ImagUnit), h, Fill(<<shape(h)[3], 1>>, One))

Scalars == {Scalar(QNeg(One)), Scalar(ImagUnit)}
ScaleOperands == Scalars \cup GfOperands \cup {Rank2, OtherObject}
Mul == \E g \in Gid, x \in ScaleOperands : mul(g, x)
Rmul == \E g \in Gid, x \in ScaleOperands : rmul(g, x)
Truediv == \E g \in Gid, x \in ScaleOperands : truediv(g, x)
ItruedivAny == \E g \in Gid, x \in ScaleOperands : itruediv(g, x)

\* every in-place operation, and copies
Next == Zeroing \/ Copying \/ LshiftGf \/ LshiftArray \/ IaddGf \/ Itruediv \/ FromLGR
Spec == InitMain /\ [][Next]_vars

\* assignment
NextAssign == Zeroing \/ LshiftGf \/ Lshift
SpecAssign == InitMain /\ [][NextAssign]_vars

\* addition
NextArith == Add \/ Iadd
SpecArith == InitMain /\ [][NextArith]_vars

\* multiplication and division
NextScale == Mul \/ Rmul \/ Truediv \/ ItruedivAny
SpecScale == InitMain /\ [][NextScale]_vars

(***************************************************************************)
(* The matrix transform: a container with data of every target shape, a    *)
(* second one with data of its own or holding the array of the first, and  *)
(* transform matrices of every shape                                       *)
(***************************************************************************)
\* np.array data with entries that differ along every axis
Pattern(sh) ==
    Tensor(sh, LAMBDA t :
        IF t[2] = 1 /\ t[3] = 1 THEN (IF t[1] % 2 = 1 THEN One ELSE QNeg(One))
        ELSE IF t[2] = 1 THEN ImagUnit
        ELSE IF t[3] = 1 THEN One
        ELSE Zero)

\* cls(data=t, beta=pi)
DataArgs(t) ==
    [data |-> [tag |-> "fresh", t |-> t], name |-> "", beta |-> 1, statistic |-> "Fermion",
     mesh |-> NoTag, indices |-> NoTag, n_points |-> NoneN]

SelfShapes == {<<2, 1, 1>>, <<2, 1, MaxDim>>, <<2, MaxDim, MaxDim>>}
GShapes == SelfShapes \cup {<<2, MaxDim, 1>>, <<2 * MaxNPoints, 1, 1>>}

InitLGR ==
    \E sh1 \in SelfShapes, sh2 \in GShapes, shared \in BOOLEAN :
        LET r1 == delegate(DataArgs(Pattern(sh1)), Pattern(sh1), Zero)
            r2 == IF shared THEN delegate(AliasArgs, r1.data, Zero)
                  ELSE delegate(DataArgs(Pattern(sh2)), Pattern(sh2), Zero)
        IN  /\ shared => sh2 = sh1
            /\ gfs = [g \in Gid |-> IF g = 1 THEN Container("GfImFreq", r1, 1)
                                    ELSE IF g = 2
                                    THEN Container("GfImFreq", r2, IF shared THEN 1 ELSE 2)
                                    ELSE NoGf]
            /\ arrays = [x \in Addr |-> IF x = 1 THEN r1.data
                                        ELSE IF x = 2 /\ ~shared THEN r2.data ELSE NoArr]
            /\ ret = Call("ctor", "ok", 0, 2, NoTag)
            /\ it = NoIt
            /\ nops = 0

\* transform matrices: L = [[1J, 1, ..], ..], R = -identity (cut to shape)
LMat(sh) == Tensor(sh, LAMBDA t : IF t[2] = 1 THEN ImagUnit ELSE One)
RMat(sh) == Tensor(sh, LAMBDA t : IF t[1] = t[2] THEN QNeg(One) ELSE Zero)
LRPairs ==
    { <<LMat(<<1, 1>>), RMat(<<1, 1>>)>>,
      <<LMat(<<1, MaxDim>>), RMat(<<MaxDim, 1>>)>>,
      <<LMat(<<MaxDim, 1>>), RMat(<<1, MaxDim>>)>>,
      <<LMat(<<MaxDim, MaxDim>>), RMat(<<MaxDim, MaxDim>>)>>,
      <<LMat(<<1, MaxDim>>), RMat(<<MaxDim, MaxDim>>)>>,
      <<LMat(<<MaxDim, MaxDim>>), RMat(<<MaxDim, 1>>)>>,
      <<Fill(<<1>>, ImagUnit), RMat(<<1, 1>>)>>,
      <<LMat(<<1, 1>>), Fill(<<1, 1, 1>>, One)>> }

Transform == \E h \in Gid, p \in LRPairs : from_L_G_R(1, p[1], h, p[2])

NextLGR == Transform
SpecLGR == InitLGR /\ [][NextLGR]_vars

(***************************************************************************)
(* The archive: one container, written and read back                       *)
(***************************************************************************)
\* Gf(beta=.., statistic=.., indices=.., n_points=..) and
\* Gf(beta=pi, indices=.., mesh=MeshImFreq(2*pi, 'Boson', 1))
ArchiveArgs ==
    [data : {NoTag}, name : {"G"}, beta : BetaOverPi, statistic : StatStrs,
     mesh : {NoTag},
     indices : {Labels(MaxDim), [tag |-> "list", v |-> <<StrEl("up"), StrEl("dn")>>]},
     n_points : 1..MaxNPoints]
    \cup
    [data : {NoTag}, name : {"G"}, beta : {1}, statistic : {"Fermion"},
     mesh : {[tag |-> "mesh", m |-> MeshImFreq(2, "Boson", 1)]},
     indices : {Labels(1)}, n_points : {NoneN}]

InitArchive ==
    \E a \in ArchiveArgs, cls \in Kinds, garbage \in GarbageVals :
        LET r == delegate(a, NoArr, garbage)
        IN  /\ gfs = [g \in Gid |-> IF g = 1 THEN Container(cls, r, 1) ELSE NoGf]
            /\ arrays = [x \in Addr |-> IF x = 1 THEN r.data ELSE NoArr]
            /\ ret = Call("ctor", "ok", 0, 1, NoTag)
            /\ it = NoIt
            /\ nops = 0

Writing == \E g \in Gid : write_hdf5(g)
Reading == factory_from_dict

NextArchive == Writing \/ Reading
SpecArchive == InitArchive /\ [][NextArchive]_vars

(***************************************************************************)
(* Inversion: a container with square or rectangular data                  *)
(***************************************************************************)
InitInverse ==
    \E sh \in SelfShapes, f \in {One, ImagUnit}, cls \in Kinds :
        LET r == delegate(DataArgs(Scale(f, Pattern(sh))), Scale(f, Pattern(sh)), Zero)
        IN  /\ gfs = [g \in Gid |-> IF g = 1 THEN Container(cls, r, 1) ELSE NoGf]
            /\ arrays = [x \in Addr |-> IF x = 1 THEN r.data ELSE NoArr]
            /\ ret = Call("ctor", "ok", 0, 1, NoTag)
            /\ it = NoIt
            /\ nops = 0

Inverting == \E g \in Gid : inverse(g)

NextInverse == Inverting \/ Itruediv \/ Zeroing
SpecInverse == InitInverse /\ [][NextInverse]_vars

(***************************************************************************)
(* Expressions: built from iOmega_n and from expressions with a matrix     *)
(* coefficient by *, + and -, each result being the operand of the next   *)
(***************************************************************************)
LeOps == {"le_mul", "le_add", "le_sub"}

InitExpr ==
    \E a \in FirstArgs :
        LET r == delegate(a, NoArr, Zero)
        IN  /\ gfs = [g \in Gid |-> IF g = 1 THEN Container("GfImFreq", r, 1) ELSE NoGf]
            /\ arrays = [x \in Addr |-> IF x = 1 THEN r.data ELSE NoArr]
            /\ ret = Call("ctor", "ok", 0, 1, NoTag)
            /\ it = NoIt
            /\ nops = 0

\* iOmega_n, LinearExpression(M, 1), LinearExpression(0, M)
BaseExprs ==
    { iOmega_n,
      LinExp(Matrix(LMat(<<MaxDim, MaxDim>>)), Scalar(One)),
      LinExp(Scalar(Zero), Matrix(RMat(<<MaxDim, MaxDim>>))) }

\* the expression the next call is made on
Exprs ==
    IF ret.op \in LeOps /\ ret.status = "ok" /\ ret.value.tag = "LinearExpression"
    THEN {ret.value}
    ELSE BaseExprs

ExprOperands ==
    {Scalar(ImagUnit), NdArray(LMat(<<1, 1>>)), NdArray(LMat(<<MaxDim, MaxDim>>)), OtherObject}

ExprMul == \E e \in Exprs, x \in ExprOperands : linexp("le_mul", e, x)
ExprAdd == \E e \in Exprs, x \in ExprOperands : linexp("le_add", e, x)
ExprSub == \E e \in Exprs, x \in ExprOperands : linexp("le_sub", e, x)
ExprGf == \E e \in Exprs, op \in LeOps, g \in Gid : linexp_gf(op, e, g)

NextExpr == ExprMul \/ ExprAdd \/ ExprSub \/ ExprGf
SpecExpr == InitExpr /\ [][NextExpr]_vars

(***************************************************************************)
(* meshes.py: a mesh and its iteration                                     *)
(***************************************************************************)
\* m = MeshImFreq(beta, statistic, n_points)
MeshNew(b, s, n) ==
    /\ IF MeshImFreq_init_ok(s)
       THEN /\ it' = [mesh |-> MeshImFreq(b, s, n), n |-> n, live |-> TRUE,
                      gen |-> "none", pos |-> 0, out |-> <<>>, runs |-> <<>>]
            /\ ret' = Call("MeshImFreq", "ok", 0, 0, NoTag)
       ELSE /\ it' = NoIt
            /\ ret' = Call("MeshImFreq", "AssertionError", 0, 0, NoTag)
    /\ UNCHANGED <<gfs, arrays, nops>>

\* i = iter(m): a new generator, positioned before the first point
IterStart ==
    /\ it.live
    /\ Len(it.runs) < MaxRuns
    /\ it' = [it EXCEPT !.gen = "running", !.pos = 0, !.out = <<>>]
    /\ ret' = Call("iter", "ok", 0, 0, NoTag)
    /\ UNCHANGED <<gfs, arrays, nops>>

\* the point the generator yields at position pos
yield_from(points, pos) == points[pos + 1]

\* next(i): yield the next point, or stop after the last one
IterNext ==
    /\ it.gen = "running"
    /\ IF it.pos < Len(it.mesh.points)
       THEN /\ it' = [it EXCEPT !.pos = @ + 1,
                                !.out = Append(@, yield_from(it.mesh.points, it.pos))]
            /\ ret' = Call("next", "ok", 0, 0, NoTag)
       ELSE /\ it' = [it EXCEPT !.gen = "done", !.runs = Append(@, it.out)]
            /\ ret' = Call("next", "StopIteration", 0, 0, NoTag)
    /\ UNCHANGED <<gfs, arrays, nops>>

MeshMake == \E b \in BetaOverPi, s \in StatStrs \cup {NotAStr}, n \in 0..MaxNPoints :
               ret.op = "init" /\ MeshNew(b, s, n)

NextMesh == MeshMake \/ IterStart \/ IterNext
SpecMesh == Init /\ [][NextMesh]_vars

(***************************************************************************)
(* Properties of construction                                              *)
(***************************************************************************)
ShapeInv(g) ==
    /\ shape(g)[1] = size(gfs[g].mesh)
    /\ shape(g)[2] = Len(left(g))
    /\ shape(g)[3] = Len(right(g))

Constructed == ret.op = "ctor" /\ ret.status = "ok"

\* C2: every container whose construction succeeds satisfies
\* data.shape[0] == mesh.size and
\* data.shape[1:3] == (len(indices.left), len(indices.right))
C2_ShapeInvariantAfterConstruction == Constructed => ShapeInv(ret.new)

\* the argument combinations that resolve no (data, mesh, indices) triple
Unresolvable(a) ==
    \/ a.data.tag = "none" /\ a.indices.tag = "none"
    \/ a.data.tag = "none" /\ a.mesh.tag = "none" /\ a.n_points = NoneN
    \/ a.n_points # NoneN /\ (a.data.tag # "none" \/ a.mesh.tag # "none")

\* the exceptions the constructor raises for its arguments
ConstructionError == {"AssertionError", "AttributeError", "ValueError"}

\* C3: construction fails, before any field of the container is set, when
\* neither data nor indices is given, when data is absent and neither mesh
\* nor n_points is given, and when n_points is given together with data or
\* with an explicit mesh
C3_UnresolvableArgumentsFail ==
    (ret.op = "ctor" /\ Unresolvable(ret.arg.a)) =>
        /\ ret.status \in ConstructionError
        /\ ret.arg.fields = {}
        /\ ret.new = 0
        /\ Live(gfs) = {}

C3_Witness ==
    /\ ret.op = "ctor"
    /\ ret.arg.a.n_points # NoneN
    /\ ret.arg.a.data.tag = "fresh"
    /\ ret.arg.a.mesh.tag = "none"
    /\ ret.arg.a.indices.tag = "list"
    /\ ret.status = "AssertionError"
    /\ ret.arg.fields = {}

\* C4: a container constructed without data but with an index set and a
\* mesh has a tensor of shape (mesh.size, len(left), len(right)) whose
\* entries are all 0
C4_AllocatedTensorIsZero ==
    (Constructed /\ ret.arg.a.data.tag = "none") =>
        /\ shape(ret.new) = <<size(gfs[ret.new].mesh), Len(left(ret.new)), Len(right(ret.new))>>
        /\ \A t \in Idx(shape(ret.new)) : DataOf(gfs, arrays, ret.new).val[t] = Zero

\* the labels the indices argument names: a flat list of str L for both
\* axes, or the two lists of an explicit pair [left, right]
IsFlat(v) == \A i \in 1..Len(v) : v[i].k = "str"
IsPair(v) == Len(v) = 2 /\ \A i \in 1..Len(v) : v[i].k = "list"
DigitLabels(n) == [i \in 1..n |-> IntStr(i - 1)]

\* C5: a flat label list L gives left = right = L, an explicit pair
\* [left, right] gives exactly those two lists, an absent argument gives
\* '0'..str(data.shape[1]-1) and '0'..str(data.shape[2]-1)
C5_IndicesFollowArgument ==
    Constructed =>
        LET v == ret.arg.a.indices.v
            g == ret.new
        IN  CASE ret.arg.a.indices.tag = "none" ->
                     /\ left(g) = DigitLabels(shape(g)[2])
                     /\ right(g) = DigitLabels(shape(g)[3])
              [] ret.arg.a.indices.tag = "list" /\ IsFlat(v) ->
                     /\ left(g) = [i \in 1..Len(v) |-> v[i].s]
                     /\ right(g) = [i \in 1..Len(v) |-> v[i].s]
              [] ret.arg.a.indices.tag = "list" /\ IsPair(v) ->
                     /\ left(g) = v[1].l
                     /\ right(g) = v[2].l
              [] OTHER -> TRUE

(***************************************************************************)
(* Properties of the mesh                                                  *)
(***************************************************************************)
\* the integers -n, ..., n-1 in increasing order
IsFrequencyRange(p, n) ==
    /\ Len(p) = 2 * n
    /\ p[1] = -n
    /\ p[Len(p)] = n - 1
    /\ \A j \in 1..(Len(p) - 1) : p[j + 1] = p[j] + 1

MeshFacts(i) ==
    /\ size(i.mesh) = 2 * i.n
    /\ IsFrequencyRange(i.mesh.points, i.n)
    /\ \A r \in 1..Len(i.runs) : IsFrequencyRange(i.runs[r], i.n)

\* C6: for n_points >= 1 a mesh has size 2*n_points, its points are
\* -n_points, ..., n_points-1 in increasing order, every iteration yields
\* that sequence, and iterating does not change the mesh
C6_MeshSizePointsIteration ==
    [][(it'.live /\ it'.n >= 1) =>
          /\ MeshFacts(it')
          /\ it.live => it'.mesh = it.mesh]_vars

C6_Witness ==
    /\ it.live
    /\ it.n >= 2
    /\ Len(it.runs) >= 2
    /\ it.gen = "done"

(***************************************************************************)
(* Properties of assignment                                                *)
(***************************************************************************)
data(g) == DataOf(gfs, arrays, g)

\* the Matsubara frequency i*(2k+1)*pi/beta of a Fermion mesh, beta = b*pi
FermionFrequency(k, b) == QMul(ImagUnit, Q(2 * k + 1, 0, b))

\* a Fermion container as built from n_points and beta, with a square target
BuiltFermion(g) ==
    /\ gfs[g].statistic = "Fermion"
    /\ gfs[g].mesh.beta = gfs[g].beta
    /\ ShapeInv(g)
    /\ shape(g)[2] = shape(g)[3]

\* C1: after g << iOmega_n on a Fermion container, data[j] is
\* i*(2*k_j + 1)*pi/beta times the identity at every mesh position j
C1_iOmegaAssignsFermionFrequencies ==
    (ret.op = "lshift" /\ ret.status = "ok" /\ ret.arg = iOmega_n /\ BuiltFermion(ret.self)) =>
        \A t \in Idx(shape(ret.self)) :
            data(ret.self).val[t] =
                IF t[2] = t[3]
                THEN FermionFrequency(gfs[ret.self].mesh.points[t[1]], gfs[ret.self].beta)
                ELSE Zero

InPlaceOps == {"zero", "lshift", "iadd", "itruediv", "from_L_G_R"}

\* C8: self << A for a container A makes data, name, beta and statistic of
\* self equal to A's, leaves the mesh and the indices of self, and leaves
\* the data of self and of A independent: an in-place operation on one of
\* them afterwards does not change the data of the other
C8_AssignContainerCopies ==
    [][/\ (nops' = nops + 1 /\ ret'.op = "lshift" /\ ret'.arg.tag = "Gf") =>
            LET g == ret'.self
                h == ret'.arg.g
            IN  /\ DataOf(gfs', arrays', g) = DataOf(gfs, arrays, h)
                /\ gfs'[g].name = gfs[h].name
                /\ gfs'[g].beta = gfs[h].beta
                /\ gfs'[g].statistic = gfs[h].statistic
                /\ gfs'[g].mesh = gfs[g].mesh
                /\ gfs'[g].indices = gfs[g].indices
                /\ \A k \in Live(gfs') \ {g} : gfs'[k].data # gfs'[g].data
       /\ (/\ ret.op = "lshift" /\ ret.status = "ok" /\ ret.arg.tag = "Gf"
           /\ ret.arg.g # ret.self
           /\ nops' = nops + 1 /\ ret'.op \in InPlaceOps
           /\ ret'.self \in {ret.self, ret.arg.g}) =>
            LET other == IF ret'.self = ret.self THEN ret.arg.g ELSE ret.self
            IN  DataOf(gfs', arrays', other) = DataOf(gfs, arrays, other)]_vars

C8_Witness ==
    /\ nops = 2
    /\ ret.op = "zero" /\ ret.self = 2
    /\ gfs[1].name = "G" /\ gfs[1].beta = 2 /\ gfs[1].statistic = "Boson"
    /\ gfs[1].mesh.beta = 1
    /\ data(1) # Fill(shape(1), Zero)
    /\ data(2) = Fill(shape(2), Zero)

\* C9: self << A fails for an ndarray whose rank is neither 2 nor 3 and for
\* an operand that is no container, ndarray or (inverse) affine operator,
\* and leaves every attribute of self as it was
C9_AssignRejectsAtomically ==
    [][(nops' = nops + 1 /\ ret'.op = "lshift") =>
          /\ (ret'.arg.tag = "ndarray" /\ ndim(ret'.arg.t) \notin {2, 3}) =>
                /\ ret'.status = "RuntimeError: Invalid ndarray A!"
                /\ UNCHANGED <<gfs, arrays>>
          /\ ret'.arg.tag = "other" =>
                /\ ret'.status = "RuntimeError: Invalid type of A!"
                /\ UNCHANGED <<gfs, arrays>>]_vars

C9_Witness ==
    /\ ret.op = "lshift"
    /\ ret.arg.tag = "ndarray"
    /\ ndim(ret.arg.t) = 1
    /\ ret.status = "RuntimeError: Invalid ndarray A!"

(***************************************************************************)
(* Properties of copies                                                    *)
(***************************************************************************)
\* C7: copy() returns a container equal to the source that shares no array
\* with any container; an in-place operation on a container changes no
\* container that does not hold the same array, and makes no two containers
\* share an array, so operations on a copy never reach the source, nor
\* operations on the source the copy
C7_CopyIsIndependent ==
    [][nops' = nops + 1 =>
          /\ ret'.op = "copy" =>
                /\ gfs'[ret'.new].data \notin {gfs[k].data : k \in Live(gfs)}
                /\ DataOf(gfs', arrays', ret'.new) = DataOf(gfs, arrays, ret'.self)
                /\ gfs'[ret'.new] = [gfs[ret'.self] EXCEPT !.data = gfs'[ret'.new].data]
                /\ \A k \in Live(gfs) :
                      gfs'[k] = gfs[k] /\ DataOf(gfs', arrays', k) = DataOf(gfs, arrays, k)
          /\ ret'.op \in InPlaceOps =>
                \A k \in Live(gfs) \ {ret'.self} :
                    gfs[k].data # gfs[ret'.self].data =>
                        /\ gfs'[k] = gfs[k]
                        /\ DataOf(gfs', arrays', k) = DataOf(gfs, arrays, k)
                        /\ gfs'[k].data # gfs'[ret'.self].data]_vars

C7_Witness ==
    /\ nops = 2
    /\ ret.op \in InPlaceOps /\ ret.status = "ok" /\ ret.self = 3
    /\ gfs[3] # NoGf
    /\ gfs[3] = [gfs[1] EXCEPT !.data = gfs[3].data]
    /\ data(3) # data(1)

(***************************************************************************)
(* Properties of addition                                                  *)
(***************************************************************************)
\* the operands the sum is defined for
Summable(g, x) ==
    \/ x.tag = "Gf" /\ gfs[x.g].kind = gfs[g].kind /\ shape(x.g) = shape(g)
    \/ x.tag = "ndarray" /\ x.t.shape = shape(g)
    \/ x.tag = "ndarray" /\ x.t.shape = <<shape(g)[2], shape(g)[3]>>

\* the entry of the operand that is added at index t
Addend(x, t) ==
    IF x.tag = "Gf" THEN data(x.g).val[t]
    ELSE IF ndim(x.t) = 3 THEN x.t.val[t]
    ELSE x.t.val[<<t[2], t[3]>>]

\* C10: g + other returns a new container whose data is the elementwise
\* sum with a same-kind container, with a rank-3 tensor, or with a rank-2
\* tensor at every mesh point; it keeps the mesh and indices of g
C10_AddReturnsSum ==
    (ret.op = "add" /\ Summable(ret.self, ret.arg)) =>
        /\ ret.status = "ok"
        /\ ret.new \in Live(gfs)
        /\ shape(ret.new) = shape(ret.self)
        /\ \A t \in Idx(shape(ret.self)) :
              data(ret.new).val[t] = QAdd(data(ret.self).val[t], Addend(ret.arg, t))
        /\ gfs[ret.new].mesh = gfs[ret.self].mesh
        /\ gfs[ret.new].indices = gfs[ret.self].indices

\* the right-hand kinds addition supports: a container of the kind of g, a
\* tensor of rank 2 or 3
AddSupported(g, x) ==
    \/ x.tag = "Gf" /\ gfs[x.g].kind = gfs[g].kind
    \/ x.tag = "ndarray" /\ ndim(x.t) \in {2, 3}

\* C11: g + other fails for every operand that is no container of the kind
\* of g and no tensor of rank 2 or 3; it returns no container, in particular
\* no unchanged copy of g
C11_AddRejectsUnsupported ==
    (ret.op = "add" /\ ~AddSupported(ret.self, ret.arg)) =>
        /\ ret.status # "ok"
        /\ ret.new = 0

(***************************************************************************)
(* Properties of multiplication and division                               *)
(***************************************************************************)
ScaleOps == {"mul", "rmul", "truediv"}

\* C12: g * x, x * g, g / x and g /= x fail for a non-scalar x and leave
\* g.data unchanged; for a scalar x, * and / return a new container and
\* leave g.data unchanged
C12_ScaleRejectsNonScalar ==
    [][(nops' = nops + 1 /\ ret'.op \in ScaleOps \cup {"itruediv"}) =>
          /\ ~isscalar(ret'.arg) =>
                /\ ret'.status # "ok"
                /\ UNCHANGED <<gfs, arrays>>
          /\ (isscalar(ret'.arg) /\ ret'.op \in ScaleOps) =>
                /\ ret'.status = "ok"
                /\ ret'.new \in Live(gfs') \ Live(gfs)
                /\ gfs'[ret'.new].data \notin {gfs[k].data : k \in Live(gfs)}
                /\ \A k \in Live(gfs) :
                      gfs'[k] = gfs[k] /\ DataOf(gfs', arrays', k) = DataOf(gfs, arrays, k)]_vars

(***************************************************************************)
(* Properties of the matrix transform                                      *)
(***************************************************************************)
\* sum over c, d of L[a,c] * D[w,c,d] * R[d,b]
LGR_entry(Lm, D, Rm, w, a, b) ==
    QSumSeq([c \in 1..D.shape[2] |->
        QSumSeq([d \in 1..D.shape[3] |->
            QMul(Lm.val[<<a, c>>], QMul(D.val[<<w, c, d>>], Rm.val[<<d, b>>]))])])

\* L is a x c, G has target shape c x d and the mesh points of self, R is
\* d x b, self has target shape a x b
DimCompatible(S, Lm, D, Rm) ==
    /\ Len(Lm.shape) = 2 /\ Len(Rm.shape) = 2
    /\ Lm.shape = <<S.shape[2], D.shape[2]>>
    /\ Rm.shape = <<D.shape[3], S.shape[3]>>
    /\ D.shape[1] = S.shape[1]

\* after self.from_L_G_R(L, G, R) with compatible dimensions self.data holds
\* the transform of the data G had before the call
TransformedFrom(g, h, Lm, Rm) ==
    /\ ret'.status = "ok"
    /\ DataOf(gfs', arrays', g).shape = DataOf(gfs, arrays, g).shape
    /\ \A t \in Idx(DataOf(gfs, arrays, g).shape) :
          DataOf(gfs', arrays', g).val[t] =
              LGR_entry(Lm, DataOf(gfs, arrays, h), Rm, t[1], t[2], t[3])

TransformCall ==
    /\ nops' = nops + 1
    /\ ret'.op = "from_L_G_R"

C14_TransformRejectsMismatch ==
    [][(/\ TransformCall
        /\ ~DimCompatible(DataOf(gfs, arrays, ret'.self), ret'.arg.L,
                          DataOf(gfs, arrays, ret'.arg.G), ret'.arg.R)) =>
          /\ ret'.status = "AssertionError"
          /\ UNCHANGED <<gfs, arrays>>]_vars

\* a call in which only the numbers of mesh points disagree
C14_Witness ==
    /\ ret.op = "from_L_G_R" /\ ret.status = "AssertionError"
    /\ ret.arg.L.shape = <<shape(ret.self)[2], shape(ret.arg.G)[2]>>
    /\ ret.arg.R.shape = <<shape(ret.arg.G)[3], shape(ret.self)[3]>>
    /\ shape(ret.arg.G)[1] # shape(ret.self)[1]
    /\ data(ret.self) = Pattern(shape(ret.self))

(***************************************************************************)
(* Properties of the archive interface                                     *)
(***************************************************************************)
\* C15: a container written with __write_hdf5__ and rebuilt with
\* __factory_from_dict__ has the data, beta, statistic and left and right
\* labels of the original, whatever the labels are
C15_ArchiveRoundTrip ==
    (ret.op = "factory_from_dict") =>
        /\ ret.status = "ok"
        /\ data(ret.new) = data(ret.self)
        /\ gfs[ret.new].beta = gfs[ret.self].beta
        /\ gfs[ret.new].statistic = gfs[ret.self].statistic
        /\ left(ret.new) = left(ret.self)
        /\ right(ret.new) = right(ret.self)

(***************************************************************************)
(* Properties of inversion                                                 *)
(***************************************************************************)
\* the entry (r, c) of the matrix product X[w] * Y[w]
MatMulAt(X, Y, w, r, c) ==
    QSumSeq([k \in 1..X.shape[3] |-> QMul(X.val[<<w, r, k>>], Y.val[<<w, k, c>>])])

\* Y[w] is the inverse of X[w] at every w
IsInverseOf(Y, X) ==
    /\ Y.shape = X.shape
    /\ X.shape[2] = X.shape[3]
    /\ \A t \in Idx(X.shape) :
          /\ MatMulAt(X, Y, t[1], t[2], t[3]) = (IF t[2] = t[3] THEN One ELSE Zero)
          /\ MatMulAt(Y, X, t[1], t[2], t[3]) = (IF t[2] = t[3] THEN One ELSE Zero)

\* C16: inverse() on a frequency container returns a new container with
\* the mesh, indices and metadata of the source whose data at each mesh
\* point is the inverse of the source's; the source is unchanged and shares
\* no array with the result; the inverse of the inverse is the original data
C16_InverseIsPointwiseInverse ==
    [][(nops' = nops + 1 /\ ret'.op = "inverse" /\ ret'.status = "ok") =>
          LET g == ret'.self
              c == ret'.new
          IN  /\ gfs[g].kind = "GfImFreq"
              /\ c \in Live(gfs') \ Live(gfs)
              /\ IsInverseOf(DataOf(gfs', arrays', c), DataOf(gfs, arrays, g))
              /\ gfs'[c] = [gfs[g] EXCEPT !.data = gfs'[c].data]
              /\ gfs'[c].data \notin {gfs[k].data : k \in Live(gfs)}
              /\ \A k \in Live(gfs) :
                    gfs'[k] = gfs[k] /\ DataOf(gfs', arrays', k) = DataOf(gfs, arrays, k)
              /\ (ret.op = "inverse" /\ ret.status = "ok" /\ ret.new = g) =>
                    DataOf(gfs', arrays', c) = DataOf(gfs, arrays, ret.self)]_vars

\* the inverse of the inverse of a container with more than one row
C16_Witness ==
    /\ ret.op = "inverse" /\ ret.status = "ok"
    /\ ret.self = 2 /\ ret.new = 3
    /\ shape(1) = <<2, MaxDim, MaxDim>>
    /\ data(3) = data(1)
    /\ data(2) # data(1)
    /\ gfs[3].data # gfs[1].data

(***************************************************************************)
(* Properties of the algebra of expressions                                *)
(***************************************************************************)
IsSquare(M) == ndim(M) = 2 /\ M.shape[1] = M.shape[2]

\* the matrix a0*identity + sign*M for a scalar a0, a0 + sign*M for a matrix
\* a0 of the shape of M
SumWithMatrix(a0, M, sign, X) ==
    /\ X.tag = "matrix"
    /\ X.m.shape = M.shape
    /\ \A t \in Idx(M.shape) :
          X.m.val[t] =
              QAdd(IF a0.tag = "matrix" THEN a0.m.val[t]
                   ELSE IF t[1] = t[2] THEN a0.v ELSE Zero,
                   QMul(sign, M.val[t]))

\* s * a for a coefficient a
Scaled(s, a, X) ==
    IF a.tag = "scalar" THEN X = Scalar(QMul(s, a.v))
    ELSE /\ X.tag = "matrix"
         /\ X.m.shape = a.m.shape
         /\ \A t \in Idx(a.m.shape) : X.m.val[t] = QMul(s, a.m.val[t])

\* e + sign*x for a scalar or a square matrix x
AddsTo(e, x, sign) ==
    /\ (isscalar(x) /\ e.a0.tag = "scalar") =>
          /\ ret.status = "ok"
          /\ ret.value = LinExp(Scalar(QAdd(e.a0.v, QMul(sign, x.v))), e.a1)
    /\ (isscalar(x) /\ e.a0.tag = "matrix") => ret.status # "ok"
    /\ (x.tag = "ndarray" /\ IsSquare(x.t)
          /\ (e.a0.tag = "matrix" => e.a0.m.shape = x.t.shape)) =>
          /\ ret.status = "ok"
          /\ ret.value.tag = "LinearExpression"
          /\ SumWithMatrix(e.a0, x.t, sign, ret.value.a0)
          /\ ret.value.a1 = e.a1

\* C17: op + c for a scalar c gives (a0 + c, a1) and fails when a0 is a
\* matrix; op + M for a square matrix M gives (a0*identity + M, a1) for a
\* scalar a0 and (a0 + M, a1) for a matrix a0; op * s for a scalar s gives
\* (s*a0, s*a1); op - x is op + (-1)*x
C17_ExpressionAlgebra ==
    (ret.op \in LeOps /\ ret.arg.x.tag # "Gf") =>
        LET e == ret.arg.e
            x == ret.arg.x
        IN  /\ ret.op = "le_add" => AddsTo(e, x, One)
            /\ ret.op = "le_sub" => AddsTo(e, x, QNeg(One))
            /\ (ret.op = "le_mul" /\ isscalar(x)) =>
                  /\ ret.status = "ok"
                  /\ ret.value.tag = "LinearExpression"
                  /\ Scaled(x.v, e.a0, ret.value.a0)
                  /\ Scaled(x.v, e.a1, ret.value.a1)

\* a matrix with more than one row added to an expression with a scalar a0
\* that is not 0, itself the result of a call
C17_Witness ==
    /\ ret.op = "le_add" /\ ret.status = "ok"
    /\ nops = 2
    /\ ret.arg.e.a0.tag = "scalar" /\ ret.arg.e.a0.v # Zero
    /\ ret.arg.x.tag = "ndarray" /\ ret.arg.x.t.shape = <<MaxDim, MaxDim>>
    /\ ret.value.a0.tag = "matrix"

(***************************************************************************)
(* The shape invariant under the operations                                *)
(***************************************************************************)
\* C18: after any sequence of zero(), <<, +=, /=, from_L_G_R and copy() on
\* containers that satisfied it when constructed, every container satisfies
\* data.shape[0] == mesh.size and
\* data.shape[1:3] == (len(indices.left), len(indices.right))
C18_ShapeInvariantKept == \A g \in Live(gfs) : ShapeInv(g)

====
